---- MODULE Spec2Model ----
(***************************************************************************)
(* Model of hls/__init__.py: HLS.parse, the segment cache (Cache.get /     *)
(* Cache.merge), the decoders, and the thread-pool driver                  *)
(* MTDownloader.download().                                                *)
(*                                                                         *)
(* A URL is a sequence of path components, bytes are sequences of cipher   *)
(* blocks (numbers 0..3), the cache directory is a function from file name *)
(* to file content, and an optional value (Python None, a file that may    *)
(* not exist) is a sequence of length 0 or 1.                              *)
(***************************************************************************)
EXTENDS Integers, Sequences, FiniteSets, TLC

\* ------------------------------------------------------------------ bounds
\* number of times the caller runs the downloader on the same directories
MaxRuns == 2

\* ------------------------------------------------------- program constants
\* ThreadPoolExecutor(max_workers=4)
max_workers == 4

\* ------------------------------------------------------------ environment
AX == <<"a", "x.ts">>
AY == <<"a", "y.ts">>
BX == <<"b", "x.ts">>
AZ == <<"a", "z.ts">>
AW == <<"a", "w.ts">>

URLs == {AX, AY, BX, AZ, AW}

\* what the server answers for a segment URL when the request succeeds
Body(url) ==
    CASE url = AX -> <<1, 2>>
      [] url = AY -> <<3>>
      [] url = BX -> <<3, 1, 2>>
      [] url = AZ -> <<2>>
      [] url = AW -> <<0, 1>>

\* the segment references of the root playlists the downloader is run on
Playlists ==
    { <<>>,
      <<AX>>,
      <<AX, AY>>,
      <<AX, AX>>,
      <<AX, BX>>,
      <<AY, AX, AY>>,
      <<AX, AX, AY, AZ, AW>> }

\* the #EXT-X-KEY line of the root playlist: none, or its KEY=VALUE list
\* (the IV value is the characters of a 0x-prefixed hex string)
KeyTags ==
    { <<>>,
      << << <<"METHOD", "AES-128">>, <<"URI", "\"key.bin\"">>,
            <<"IV", <<"0", "x", 3>> >> >> >>,
      << << <<"METHOD", "AES-128">>, <<"URI", "\"key.bin\"">> >> >>,
      << << <<"METHOD", "AES-128">>, <<"IV", <<"0", "x", 3>> >> >> >>,
      << << <<"METHOD", "NONE">> >> >>,
      << << <<"URI", "\"key.bin\"">>, <<"IV", <<"0", "x", 3>> >> >> >> }

\* the key bytes fetched from the URI
KeyBytes == 1

\* what the server answers for the URL of a key
KeyBody(url) == IF url = <<"a", "key.bin">> THEN KeyBytes ELSE 0

\* outcome of one getter call: the response is written, the server answers
\* with a status other than 200, or the local write breaks off part-way
Outcomes == {"ok", "http_error", "io_error"}

\* the URL the downloader is started with
RootUrl == <<"a", "index.m3u8">>

V1 == <<"a", "v1.m3u8">>
V2 == <<"a", "v2.m3u8">>

\* playlist lines: a reference (relative to the playlist's directory or
\* absolute), a #EXT-X-KEY line, any other # line, an empty line
Ref(path) == [kind |-> "ref", abs |-> FALSE, path |-> path]
AbsRef(path) == [kind |-> "ref", abs |-> TRUE, path |-> path]
KeyLine(attrs) == [kind |-> "key", attrs |-> attrs]
Comment == [kind |-> "comment", path |-> <<"#EXTINF:4,", "x.ts">>]
Blank == Ref(<<>>)

\* the line that names a segment URL in a playlist stored in directory a
LineOf(url) == IF url[1] = "a" THEN Ref(Tail(url)) ELSE AbsRef(url)

\* the reference lines of the root playlists
RootBodies ==
    { [i \in 1 .. Len(p) |-> LineOf(p[i])] : p \in Playlists }
    \cup { << Ref(<<"v1.m3u8">>), Comment, Ref(<<"v2.m3u8">>) >>,
           << Ref(<<"v1.m3u8">>), Comment, Ref(<<"z.ts">>) >> }

\* the text of a root playlist, split into lines
RootText(k, b) ==
    <<Comment>> \o [i \in 1 .. Len(k) |-> KeyLine(k[i])] \o b \o <<Blank>>

\* the root playlists the program is run on: the short ones with every key
\* line, the long ones without one
RootTexts ==
    { RootText(k, b) : k \in KeyTags, b \in {c \in RootBodies : Len(c) <= 3} }
    \cup { RootText(<<>>, b) : b \in RootBodies }

\* the text of a variant playlist, split into lines
VariantText(url) ==
    CASE url = V1 -> << Comment, Ref(<<"x.ts">>), Comment, Ref(<<"y.ts">>) >>
      [] url = V2 -> << Ref(<<"z.ts">>), Ref(<<"v1.m3u8">>), Ref(<<"w.ts">>),
                       Blank >>

\* ---------------------------------------------------------- pure helpers
\* line.startswith("#")
StartsWithHash(line) == line.kind \in {"key", "comment"}

\* line.startswith(HLS.EXT_X_KEY)
StartsWithKey(line) == line.kind = "key"

\* line.endswith(suffix), for the names that occur in the playlists
EndsWith(line, suffix) ==
    /\ line.path # <<>>
    /\ LET name == line.path[Len(line.path)] IN
       CASE suffix = "ts" -> name \in {"x.ts", "y.ts", "z.ts", "w.ts"}
         [] suffix = "m3u8" -> name \in {"v1.m3u8", "v2.m3u8"}

\* url.rsplit("/", 1)[0] + "/"
Prefix(url) == SubSeq(url, 1, Len(url) - 1)

\* urljoin(url_prefix, line)
urljoin(prefix, line) == IF line.abs THEN line.path ELSE prefix \o line.path

\* HLS.parse_ext_x_key: the dictionary of the KEY=VALUE list, a later value
\* replacing an earlier one of the same key
parse_ext_x_key(attrs) ==
    [k \in {attrs[i][1] : i \in DOMAIN attrs} |->
        attrs[CHOOSE i \in DOMAIN attrs :
                /\ attrs[i][1] = k
                /\ \A j \in DOMAIN attrs : attrs[j][1] = k => j <= i][2]]

\* value.replace("\"", "")
Unquote(value) == IF value = "\"key.bin\"" THEN "key.bin" ELSE value

\* bytes.fromhex(value[2:])
FromHex(value) == SubSeq(value, 3, Len(value))[1]

ScanRefsReversed(lines, prefix, suffix) ==
    LET hit(i) == ~StartsWithHash(lines[i]) /\ EndsWith(lines[i], suffix)
        idx == {i \in DOMAIN lines : hit(i)}
        n == Cardinality(idx)
        nth(k) == CHOOSE i \in idx : Cardinality({j \in idx : j > i}) = k - 1
    IN [k \in 1 .. n |-> urljoin(prefix, lines[nth(k)])]

\* HLS.parse: the references of a playlist text that end with suffix, each
\* appended as its line is met
RECURSIVE ScanRefs(_, _, _)
ScanRefs(lines, prefix, suffix) ==
    IF lines = <<>> THEN <<>>
    ELSE (IF ~StartsWithHash(Head(lines)) /\ EndsWith(Head(lines), suffix)
          THEN <<urljoin(prefix, Head(lines))>> ELSE <<>>)
         \o ScanRefs(Tail(lines), prefix, suffix)

\* HLS.parse: hls.ext_x_key after the loop over the root's lines, the key
\* line met last winning, IV converted to bytes
RECURSIVE ScanKey(_, _)
ScanKey(lines, found) ==
    IF lines = <<>> THEN found
    ELSE IF StartsWithKey(Head(lines))
         THEN LET d == parse_ext_x_key(Head(lines).attrs) IN
              ScanKey(Tail(lines),
                      << IF "IV" \in DOMAIN d
                         THEN [d EXCEPT !["IV"] = FromHex(d["IV"])]
                         ELSE d >>)
         ELSE ScanKey(Tail(lines), found)

\* HLS.parse: the segment references of the variant playlists, in the order
\* of m3u8_url_list, resolved against the root's directory
RECURSIVE VariantRefs(_, _)
VariantRefs(m3u8_urls, prefix) ==
    IF m3u8_urls = <<>> THEN <<>>
    ELSE ScanRefs(VariantText(Head(m3u8_urls)), prefix, "ts")
         \o VariantRefs(Tail(m3u8_urls), prefix)

\* the requests HLS.parse sends for a root text, each of which may fail
NoFailure == <<"none", 0>>
FetchPoints(text) ==
    {<<"root", 0>>}
    \cup (IF ScanKey(text, <<>>) # <<>> /\ "URI" \in DOMAIN ScanKey(text, <<>>)[1]
          THEN {<<"key", 0>>} ELSE {})
    \cup {<<"variant", i>> :
            i \in 1 .. Len(ScanRefs(text, Prefix(RootUrl), "m3u8"))}

AbortsNever(fail) == FALSE

\* getter raises inside HLS.parse, which ends MTDownloader.__init__
Aborts(fail) == fail # NoFailure
\* url.rsplit("/", 1)[1]
Suffix(url) == url[Len(url)]

\* f.write(data) on a file opened at offset 0: data replaces the first
\* Len(data) blocks, what lies beyond stays
WriteAt0(old, data) ==
    IF Len(data) >= Len(old) THEN data
    ELSE data \o SubSeq(old, Len(data) + 1, Len(old))

\* the part of the data that reaches the file when the write breaks off
Partial(data) == SubSeq(data, 1, Len(data) - 1)

Xor(a, b) ==
    (((a % 2) + (b % 2)) % 2) + 2 * (((a \div 2) + (b \div 2)) % 2)

\* the block cipher's decryption of one block under a key
BlockDecrypt(key, c) == (c + 4 - key) % 4

\* CBC decryption of a run of blocks, chained from the value prev
RECURSIVE CbcDecrypt(_, _, _)
CbcDecrypt(key, prev, content) ==
    IF content = <<>> THEN <<>>
    ELSE <<Xor(BlockDecrypt(key, content[1]), prev)>>
         \o CbcDecrypt(key, content[1], Tail(content))

\* chaining value left in the cipher object after decrypting content
CbcChain(prev, content) ==
    IF content = <<>> THEN prev ELSE content[Len(content)]

VARIABLES
    root_text,          \* the lines of the playlist at RootUrl
    parse_exc,          \* the request of HLS.parse that failed, if any
    m3u8_url_list,      \* hls.m3u8_url_list
    ts_url_list,        \* hls.ts_url_list
    ext_x_key,          \* hls.ext_x_key
    ext_x_key_enc_key,  \* hls.ext_x_key_enc_key
    files,              \* the cache directory: file name -> content
    out_file,           \* the output file: <<>> absent, <<content>> present
    tpc,                \* per submitted task: where Cache.get is
    work_queue,         \* executor._work_queue: tasks not yet taken
    futures,            \* download(): futures still waited for
    total,              \* download(): total
    bar,                \* tqdm bar: sum of update() arguments
    pc,                 \* where download() is
    exc,                \* task whose exception download() raised, 0 if none
    mi,                 \* Cache.merge: index of the next url in url_list
    decoder,            \* the Decoder passed to merge
    fetches,            \* requests sent per url during this run
    prior,              \* urls fetched and stored by earlier runs
    last,               \* how the previous run ended, "none" in the first
    run                 \* which run of the program this is

vars == <<root_text, parse_exc, m3u8_url_list, ts_url_list, ext_x_key,
          ext_x_key_enc_key, files, out_file, tpc,
          work_queue, futures, total, bar, pc, exc, mi, decoder, fetches,
          prior, last, run>>

hlsVars == <<root_text, parse_exc, m3u8_url_list, ts_url_list, ext_x_key,
            ext_x_key_enc_key>>

Tasks == 1 .. Len(ts_url_list)

Failed == {"http_failed", "io_failed"}
Returned == {"ok", "hit"}
FinishedEarly == Returned \cup Failed \cup {"fetching"}
FinishedOnlyOk == Returned

\* the states of a future that wait() returns as done
Finished == Returned \cup Failed
InFlight == {t \in Tasks : tpc[t] \in {"opening", "fetching"}}

ExistsNever(name) == FALSE

\* os.path.exists(file_path)
Exists(name) == name \in DOMAIN files

\* open(file_path, "wb"): create the file or truncate it
OpenWb(name) == [n \in DOMAIN files \cup {name} |->
                    IF n = name THEN <<>> ELSE files[n]]

\* the file's content after data was written at offset 0
Written(name, data) == [files EXCEPT ![name] = WriteAt0(files[name], data)]

NoDecoder == [kind |-> "none", key |-> 0, chain |-> 0]

get_decoderLenient ==
    IF ext_x_key # <<>>
       /\ "METHOD" \in DOMAIN ext_x_key[1]
       /\ ext_x_key[1]["METHOD"] = "AES-128"
       /\ "IV" \in DOMAIN ext_x_key[1]
       /\ ext_x_key_enc_key # <<>>
    THEN [kind |-> "aes", key |-> ext_x_key_enc_key[1],
          chain |-> ext_x_key[1]["IV"]]
    ELSE [kind |-> "default", key |-> 0, chain |-> 0]

get_decoderAnyMethod ==
    IF ext_x_key # <<>> /\ "METHOD" \in DOMAIN ext_x_key[1]
    THEN IF "IV" \in DOMAIN ext_x_key[1] /\ ext_x_key_enc_key # <<>>
         THEN [kind |-> "aes", key |-> ext_x_key_enc_key[1],
               chain |-> ext_x_key[1]["IV"]]
         ELSE [kind |-> "error", key |-> 0, chain |-> 0]
    ELSE [kind |-> "default", key |-> 0, chain |-> 0]

\* HLS.get_decoder: the decoder returned, or kind "error" when building
\* the AESDecoder raises (no IV in the dictionary, or key None)
get_decoder ==
    IF ext_x_key # <<>>
       /\ "METHOD" \in DOMAIN ext_x_key[1]
       /\ ext_x_key[1]["METHOD"] = "AES-128"
    THEN IF "IV" \in DOMAIN ext_x_key[1] /\ ext_x_key_enc_key # <<>>
         THEN [kind |-> "aes", key |-> ext_x_key_enc_key[1],
               chain |-> ext_x_key[1]["IV"]]
         ELSE [kind |-> "error", key |-> 0, chain |-> 0]
    ELSE [kind |-> "default", key |-> 0, chain |-> 0]

\* Decoder.decode: the bytes returned
decode(d, content) ==
    IF d.kind = "aes" THEN CbcDecrypt(d.key, d.chain, content) ELSE content

\* Decoder.decode: the decoder object after the call
decoded(d, content) ==
    IF d.kind = "aes" THEN [d EXCEPT !.chain = CbcChain(d.chain, content)]
    ELSE d

\* ------------------------------------------------------------------ Init
\* the program is started on an empty cache directory
Init ==
    /\ root_text \in RootTexts
    /\ parse_exc = NoFailure
    /\ m3u8_url_list = <<>>
    /\ ts_url_list = <<>>
    /\ ext_x_key = <<>>
    /\ ext_x_key_enc_key = <<>>
    /\ files = <<>>
    /\ out_file = <<>>
    /\ tpc = <<>>
    /\ work_queue = <<>>
    /\ futures = {}
    /\ total = 0
    /\ bar = 0
    /\ pc = "init"
    /\ exc = 0
    /\ mi = 0
    /\ decoder = NoDecoder
    /\ fetches = [u \in URLs |-> 0]
    /\ prior = {}
    /\ last = "none"
    /\ run = 1

\* ----------------------------------------------------------------- parse
\* MTDownloader.__init__: HLS.parse(url, getter), in which the request
\* named by fail, if any, raises
Parse(fail) ==
    LET prefix == Prefix(RootUrl)
        key == ScanKey(root_text, <<>>)
        m3u8 == ScanRefs(root_text, prefix, "m3u8")
        ts == ScanRefs(root_text, prefix, "ts") \o VariantRefs(m3u8, prefix)
    IN
    /\ pc = "init"
    /\ fail \in {NoFailure} \cup FetchPoints(root_text)
    /\ parse_exc' = fail
    /\ IF Aborts(fail)
       THEN /\ pc' = "parse_error"
            /\ UNCHANGED <<m3u8_url_list, ts_url_list, ext_x_key,
                           ext_x_key_enc_key, tpc>>
       ELSE /\ pc' = "submit"
            /\ m3u8_url_list' = m3u8
            /\ ts_url_list' = ts
            /\ ext_x_key' = key
            /\ ext_x_key_enc_key' =
                 IF key # <<>> /\ "URI" \in DOMAIN key[1]
                 THEN << KeyBody(urljoin(prefix,
                                         Ref(<<Unquote(key[1]["URI"])>>))) >>
                 ELSE <<>>
            /\ tpc' = [t \in 1 .. Len(ts) |-> "new"]
    /\ UNCHANGED <<root_text, files, out_file, work_queue, futures, total,
                   bar, exc, mi, decoder, fetches, prior, last, run>>

\* --------------------------------------------------------------- workers
\* a pool thread takes the next work item and runs Cache.get up to the
\* existence test
Start(t) ==
    /\ work_queue # <<>>
    /\ t = Head(work_queue)
    /\ Cardinality(InFlight) < max_workers
    /\ work_queue' = Tail(work_queue)
    /\ tpc' = [tpc EXCEPT ![t] =
                 IF Exists(Suffix(ts_url_list[t])) THEN "hit" ELSE "opening"]
    /\ UNCHANGED <<hlsVars, files, out_file, futures, total, bar, pc, exc,
                   mi, decoder, fetches, prior, last, run>>

\* Cache.get: open(file_path, "wb")
Open(t) ==
    /\ tpc[t] = "opening"
    /\ files' = OpenWb(Suffix(ts_url_list[t]))
    /\ tpc' = [tpc EXCEPT ![t] = "fetching"]
    /\ UNCHANGED <<hlsVars, out_file, work_queue, futures, total, bar, pc,
                   exc, mi, decoder, fetches, prior, last, run>>

\* Cache.get: self.get1(url, f) and the close of f
Getter(t, outcome) ==
    LET url == ts_url_list[t]
        name == Suffix(url)
    IN
    /\ tpc[t] = "fetching"
    /\ fetches' = [fetches EXCEPT ![url] = @ + 1]
    /\ CASE outcome = "ok" ->
              /\ files' = Written(name, Body(url))
              /\ tpc' = [tpc EXCEPT ![t] = "ok"]
         [] outcome = "http_error" ->
              /\ files' = files
              /\ tpc' = [tpc EXCEPT ![t] = "http_failed"]
         [] outcome = "io_error" ->
              /\ files' = Written(name, Partial(Body(url)))
              /\ tpc' = [tpc EXCEPT ![t] = "io_failed"]
    /\ UNCHANGED <<hlsVars, out_file, work_queue, futures, total, bar, pc,
                   exc, mi, decoder, prior, last, run>>

\* ---------------------------------------------------------------- driver
\* download(): futures = [executor.submit(...) ...]; total = len(futures)
Submit ==
    /\ pc = "submit"
    /\ work_queue' = [i \in 1 .. Len(ts_url_list) |-> i]
    /\ tpc' = [t \in Tasks |-> "queued"]
    /\ futures' = Tasks
    /\ total' = Len(ts_url_list)
    /\ pc' = IF Len(ts_url_list) > 0 THEN "wait" ELSE "merge"
    /\ UNCHANGED <<hlsVars, files, out_file, bar, exc, mi, decoder, fetches,
                   prior, last, run>>

RaisingNone(done) == {}

\* the futures of a done set whose exception() is not None
Raising(done) == {t \in done : tpc[t] \in Failed}

CountOne(done) == 1

\* len(done)
Count(done) == Cardinality(done)

\* download(): one round of the while loop
Wait ==
    LET done == {t \in futures : tpc[t] \in Finished} IN
    /\ pc = "wait"
    /\ done # {}
    /\ futures' = futures \ done
    /\ IF Raising(done) # {}
       THEN /\ exc' \in Raising(done)
            /\ pc' = "shutdown"
            /\ UNCHANGED <<total, bar>>
       ELSE /\ total' = total - Count(done)
            /\ bar' = bar + Count(done)
            /\ pc' = IF total' > 0 THEN "wait" ELSE "merge"
            /\ exc' = exc
    /\ UNCHANGED <<hlsVars, files, out_file, tpc, work_queue, mi, decoder,
                   fetches, prior, last, run>>

RaiseNoWait ==
    /\ pc = "shutdown"
    /\ pc' = "raised"
    /\ UNCHANGED <<hlsVars, files, out_file, tpc, work_queue, futures, total,
                   bar, exc, mi, decoder, fetches, prior, last, run>>

\* download(): the exception leaves the with block once the executor has
\* shut down, that is once the pool threads have emptied the queue
Raise ==
    /\ pc = "shutdown"
    /\ work_queue = <<>>
    /\ InFlight = {}
    /\ pc' = "raised"
    /\ UNCHANGED <<hlsVars, files, out_file, tpc, work_queue, futures, total,
                   bar, exc, mi, decoder, fetches, prior, last, run>>

\* download(): get_decoder() and Cache.merge up to open(file_path, "wb")
MergeOpen ==
    /\ pc = "merge"
    /\ IF get_decoder.kind = "error"
       THEN /\ pc' = "config_error"
            /\ UNCHANGED <<decoder, out_file, mi>>
       ELSE /\ decoder' = get_decoder
            /\ out_file' = << <<>> >>
            /\ mi' = 1
            /\ pc' = "merging"
    /\ UNCHANGED <<hlsVars, files, tpc, work_queue, futures, total, bar, exc,
                   fetches, prior, last, run>>

\* Cache.merge: one round of the for loop, or the end of the loop
MergeStep ==
    /\ pc = "merging"
    /\ IF mi > Len(ts_url_list)
       THEN /\ pc' = "done"
            /\ UNCHANGED <<out_file, mi, decoder>>
       ELSE LET name == Suffix(ts_url_list[mi]) IN
            IF ~Exists(name)
            THEN /\ pc' = "merge_failed"
                 /\ UNCHANGED <<out_file, mi, decoder>>
            ELSE /\ out_file' = << out_file[1] \o decode(decoder, files[name]) >>
                 /\ decoder' = decoded(decoder, files[name])
                 /\ mi' = mi + 1
                 /\ pc' = pc
    /\ UNCHANGED <<hlsVars, files, tpc, work_queue, futures, total, bar, exc,
                   fetches, prior, last, run>>

\* the caller runs the program again on the same playlist, cache directory
\* and output path
Restart ==
    /\ pc \in {"done", "raised", "merge_failed", "config_error", "parse_error"}
    /\ run < MaxRuns
    /\ run' = run + 1
    /\ last' = pc
    /\ prior' = prior \cup {ts_url_list[t] : t \in {s \in Tasks : tpc[s] = "ok"}}
    /\ tpc' = <<>>
    /\ parse_exc' = NoFailure
    /\ m3u8_url_list' = <<>>
    /\ ts_url_list' = <<>>
    /\ ext_x_key' = <<>>
    /\ ext_x_key_enc_key' = <<>>
    /\ work_queue' = <<>>
    /\ futures' = {}
    /\ total' = 0
    /\ bar' = 0
    /\ pc' = "init"
    /\ exc' = 0
    /\ mi' = 0
    /\ decoder' = NoDecoder
    /\ fetches' = [u \in URLs |-> 0]
    /\ UNCHANGED <<root_text, files, out_file>>

Next ==
    \/ \E f \in {NoFailure} \cup FetchPoints(root_text) : Parse(f)
    \/ \E t \in Tasks : Start(t)
    \/ \E t \in Tasks : Open(t)
    \/ \E t \in Tasks, o \in Outcomes : Getter(t, o)
    \/ Submit
    \/ Wait
    \/ Raise
    \/ MergeOpen
    \/ MergeStep
    \/ Restart

Spec == Init /\ [][Next]_vars

\* every pool thread and the driver keep running, and every request the
\* getter sends is answered or fails
Fairness ==
    /\ WF_vars(\E t \in Tasks : Start(t))
    /\ WF_vars(\E t \in Tasks : Open(t))
    /\ WF_vars(\E t \in Tasks, o \in Outcomes : Getter(t, o))
    /\ WF_vars(Submit)
    /\ WF_vars(Wait)
    /\ WF_vars(Raise)
    /\ WF_vars(MergeOpen)
    /\ WF_vars(MergeStep)

FairSpec == Spec /\ Fairness

\* ---------------------------------------------------------------- claims
Range(seq) == {seq[i] : i \in 1 .. Len(seq)}

\* no two distinct segment URLs of the playlist share a final path component
NoAlias ==
    \A u, v \in Range(ts_url_list) : Suffix(u) = Suffix(v) => u = v

\* the playlist names some URL more than once
HasDuplicate ==
    \E i, j \in Tasks : i # j /\ ts_url_list[i] = ts_url_list[j]

\* the entry holds the whole response of one request for a URL of that name
Complete(fs, name) ==
    \E u \in URLs : Suffix(u) = name /\ fs[name] = Body(u)

\* decode(bytes(s_i)) ++ ... ++ decode(bytes(s_n)), each segment decoded by
\* the decoder as get_decoder constructs it
RECURSIVE DecodedFrom(_)
DecodedFrom(i) ==
    IF i > Len(ts_url_list) THEN <<>>
    ELSE decode(get_decoder, Body(ts_url_list[i])) \o DecodedFrom(i + 1)

\* the output Cache.merge writes when every entry holds its URL's response
RECURSIVE FreshMerge(_, _)
FreshMerge(i, d) ==
    IF i > Len(ts_url_list) THEN <<>>
    ELSE decode(d, Body(ts_url_list[i]))
         \o FreshMerge(i + 1, decoded(d, Body(ts_url_list[i])))

\* C1: a run of download() that succeeds leaves an output file equal to the
\* concatenation, in playlist order, of the decoded response of every
\* segment URL (stated for playlists whose file names are unique).
C1_OutputIsDecodedConcat ==
    (pc = "done" /\ NoAlias) => out_file = << DecodedFrom(1) >>

\* C2: ensure is all-or-nothing: after a Cache.get call has failed, the
\* cache holds no entry under the url's key, unless it is the complete
\* response some other call stored.
C2_FailedGetLeavesNoEntry ==
    \A t \in Tasks :
        tpc[t] \in Failed =>
            \/ ~Exists(Suffix(ts_url_list[t]))
            \/ Complete(files, Suffix(ts_url_list[t]))

\* C3: a run that follows a partial run (some tasks stored their segment,
\* at least one failed) and succeeds has fetched exactly the segments not
\* stored before and has written the output of a fresh all-success run.
C3_RerunCompletesPartialRun ==
    (run > 1 /\ last = "raised" /\ prior # {} /\ pc = "done" /\ NoAlias) =>
        /\ {u \in URLs : fetches[u] > 0} = Range(ts_url_list) \ prior
        /\ out_file = << FreshMerge(1, get_decoder) >>

\* C4: once download() has detected a failed task, no task that was still
\* waiting in the queue (all pool threads having been taken) is started.
C4_NoStartAfterFailure ==
    [][\A t \in Tasks :
          (/\ pc \in {"shutdown", "raised"}
           /\ tpc[t] = "queued"
           /\ Cardinality({s \in Tasks : tpc[s] # "queued"}) >= max_workers)
          => tpc'[t] = "queued"]_vars

\* C5: if an ensure task has failed, download() does not reach Cache.merge
\* and the output file is neither created nor modified; when download()
\* raises, the exception is that of a failed task.
C5_FailureMeansNoMerge ==
    [][/\ (\E t \in DOMAIN tpc' : tpc'[t] \in Failed) =>
            /\ pc' \notin {"merge", "merging", "done"}
            /\ out_file' = out_file
       /\ pc' = "raised" =>
            (exc' \in DOMAIN tpc' /\ tpc'[exc'] \in Failed)]_vars

C5_Witness ==
    /\ pc = "raised"
    /\ tpc[exc] \in Failed
    /\ \E t \in Tasks : tpc[t] = "ok"
    /\ out_file = <<>>

\* C6: a Cache.get call that begins when an entry exists under the key, in
\* particular when an earlier call on the same URL has returned in this run
\* or stored the segment in an earlier run, returns without a request and
\* leaves the cache unchanged; every call sends at most one request.
C6_SecondGetIsHit ==
    [][/\ \A t \in Tasks :
            (/\ tpc[t] = "queued"
             /\ tpc'[t] # "queued"
             /\ \/ Exists(Suffix(ts_url_list[t]))
                \/ ts_url_list[t] \in prior
                \/ \E s \in Tasks : /\ ts_url_list[s] = ts_url_list[t]
                                    /\ tpc[s] \in Returned)
            => (tpc'[t] = "hit" /\ files' = files /\ fetches' = fetches)
       /\ \A u \in URLs :
            fetches'[u] = Cardinality({t \in DOMAIN tpc' :
                              /\ ts_url_list'[t] = u
                              /\ tpc'[t] \in {"ok"} \cup Failed})]_vars

C6_Witness ==
    \E s, t \in Tasks :
        /\ s # t
        /\ ts_url_list[s] = ts_url_list[t]
        /\ tpc[s] = "ok"
        /\ tpc[t] = "hit"
        /\ fetches[ts_url_list[t]] = 1

\* C7: during one run the fetcher is called at most once for any URL, also
\* when the playlist names the URL several times.
C7_AtMostOneFetchPerUrl ==
    \A u \in URLs : fetches[u] <= 1

\* C8: with a duplicate URL in the playlist, an entry visible under its key
\* always holds the complete bytes of one fetch.
C8_NoPartialEntryVisible ==
    HasDuplicate => \A name \in DOMAIN files : Complete(files, name)

\* C9: once an entry holds the complete bytes of a successful fetch, no
\* step of any ensure call changes, truncates or removes it (stated for
\* playlists whose file names are unique).
C9_CompleteEntryImmutable ==
    [][NoAlias =>
         \A name \in DOMAIN files :
            Complete(files, name) =>
                (name \in DOMAIN files' /\ files'[name] = files[name])]_vars

\* C10: every segment of a merge is decoded as a decoder fresh from
\* get_decoder decodes it, that is starting from the captured IV, however
\* many segments were decoded before it.
C10_DecodeIndependentOfHistory ==
    [][(pc = "merging" /\ mi' = mi + 1) =>
          out_file' = << out_file[1]
                         \o decode(get_decoder,
                                   files[Suffix(ts_url_list[mi])]) >>]_vars

\* C11: when download() returns or raises, the progress reported equals the
\* number of tasks the driver has observed as completed, the failed one
\* included.
C11_ProgressCountsEveryObserved ==
    pc \in {"done", "raised"} => bar = Cardinality(Tasks \ futures)

IsTsRef(line) == line.kind = "ref" /\ EndsWith(line, "ts")
IsM3u8Ref(line) == line.kind = "ref" /\ EndsWith(line, "m3u8")
SegmentsOf(text) ==
    LET sel == SelectSeq(text, IsTsRef) IN
    [i \in 1 .. Len(sel) |-> urljoin(Prefix(RootUrl), sel[i])]
VariantsOf(text) ==
    LET sel == SelectSeq(text, IsM3u8Ref) IN
    [i \in 1 .. Len(sel) |-> urljoin(Prefix(RootUrl), sel[i])]

\* the segments of the variants from the i-th on, variant after variant
RECURSIVE SegmentsFromVariant(_)
SegmentsFromVariant(i) ==
    IF i > Len(VariantsOf(root_text)) THEN <<>>
    ELSE SegmentsOf(VariantText(VariantsOf(root_text)[i]))
         \o SegmentsFromVariant(i + 1)

\* C13: after HLS.parse the segment list is the root's direct segment
\* references in line order, then the segments of each variant playlist in
\* the order the variants appear in the root, line order kept inside each;
\* variants [v1, v2] holding [x, y] and [z, w] give [x, y, z, w].
C13_FlattenOrder ==
    pc \notin {"init", "parse_error"} =>
        /\ ts_url_list = SegmentsOf(root_text) \o SegmentsFromVariant(1)
        /\ (VariantsOf(root_text) = <<V1, V2>> /\ SegmentsOf(root_text) = <<>>)
             => ts_url_list = <<AX, AY, AZ, AW>>

C13_Witness ==
    /\ pc = "submit"
    /\ m3u8_url_list = <<V1, V2>>
    /\ ts_url_list = <<AX, AY, AZ, AW>>

\* the playlist declares METHOD=AES-128 and the key or the IV is missing
AesUnresolved ==
    /\ ext_x_key # <<>>
    /\ "METHOD" \in DOMAIN ext_x_key[1]
    /\ ext_x_key[1]["METHOD"] = "AES-128"
    /\ ("IV" \notin DOMAIN ext_x_key[1] \/ ext_x_key_enc_key = <<>>)

\* C14: with METHOD=AES-128 and the key or the IV unresolved, no segment is
\* ever decoded, the output file is never opened or written, and a run whose
\* downloads all succeeded ends in the one error get_decoder raises.
C14_UnresolvedKeyFailsBeforeMerge ==
    [][AesUnresolved' =>
         /\ pc' \notin {"merging", "done", "merge_failed"}
         /\ out_file' = out_file
         /\ decoder' = NoDecoder
         /\ mi' = 0
         /\ pc = "merge" => pc' = "config_error"]_vars

C14_Witness ==
    /\ pc = "config_error"
    /\ AesUnresolved
    /\ Len(ts_url_list) >= 2
    /\ \A t \in Tasks : tpc[t] \in Returned
    /\ out_file = <<>>

\* C15: when a request of HLS.parse fails (root playlist, key or variant
\* playlist) the run ends there: no task is submitted, no cache entry is
\* created or changed, no request for a segment is sent and the output file
\* is not touched.
C15_ParseFailureAborts ==
    [][parse_exc' # NoFailure =>
         /\ pc' = "parse_error"
         /\ tpc' = <<>>
         /\ work_queue' = <<>>
         /\ futures' = {}
         /\ files' = files
         /\ fetches' = fetches
         /\ out_file' = out_file]_vars

C15_Witness ==
    /\ pc = "parse_error"
    /\ parse_exc = <<"variant", 2>>
    /\ files = <<>>
    /\ out_file = <<>>

\* the root playlist has a #EXT-X-KEY line that states METHOD=AES-128
DeclaresAes ==
    \E i \in DOMAIN root_text :
        /\ root_text[i].kind = "key"
        /\ \E j \in DOMAIN root_text[i].attrs :
              root_text[i].attrs[j] = <<"METHOD", "AES-128">>

\* C18: the decoder handed to Cache.merge is the identity decoder when the
\* playlist has no #EXT-X-KEY line or one whose METHOD is missing or not
\* AES-128, and the AES decoder (or the error of building it) exactly when
\* METHOD is AES-128.
C18_DecoderSelection ==
    /\ pc \in {"merging", "done"} =>
          decoder.kind = IF DeclaresAes THEN "aes" ELSE "default"
    /\ pc = "config_error" => DeclaresAes
    /\ pc \notin {"init", "parse_error"} =>
          (get_decoder.kind = "default" <=> ~DeclaresAes)

C18_Witness ==
    /\ pc = "done"
    /\ ext_x_key # <<>>
    /\ decoder.kind = "default"
    /\ Len(ts_url_list) >= 1

\* C16: Cache.merge runs only when every submitted task has returned
\* without exception, nothing is queued or in flight and every segment URL
\* has an entry under its key; each round of merge appends the decoded
\* entry of the next URL of the playlist.
C16_CompletionBarrier ==
    [][pc' = "merging" =>
         /\ \A t \in Tasks : tpc'[t] \in Returned
         /\ work_queue' = <<>>
         /\ futures' = {}
         /\ \A i \in 1 .. Len(ts_url_list) : Suffix(ts_url_list[i]) \in DOMAIN files'
         /\ files' = files
         /\ pc = "merge" => (mi' = 1 /\ out_file' = << <<>> >>)
         /\ pc = "merging" =>
              /\ mi' = mi + 1
              /\ out_file' = << out_file[1]
                                \o decode(decoder,
                                          files[Suffix(ts_url_list[mi])]) >>]_vars

C16_Witness ==
    /\ pc = "merging"
    /\ mi = 3
    /\ Len(ts_url_list) >= 3
    /\ \E t \in Tasks : tpc[t] = "hit"

\* C17: when download() has raised a task's failure, no Cache.get is
\* queued or running, every task has run to its end, and the cache
\* directory is not written afterwards.
C17_NoTaskRunsAfterRaise ==
    [][pc' = "raised" =>
         /\ \A t \in Tasks : tpc'[t] \in Finished
         /\ work_queue' = <<>>
         /\ files' = files
         /\ tpc' = tpc]_vars

C17_Witness ==
    /\ pc = "raised"
    /\ Len(ts_url_list) > max_workers
    /\ Cardinality({t \in Tasks : tpc[t] \in Failed}) >= 2
    /\ \E t \in Tasks : tpc[t] = "ok"

\* C19: two distinct segment URLs with the same final path component share
\* one cache entry; at most one of them is fetched in a run, and the
\* merged output holds the decoded bytes of that one entry at both places.
C19_AliasFetchedOnce ==
    /\ \A u, v \in Range(ts_url_list) :
          (u # v /\ Suffix(u) = Suffix(v)) => (fetches[u] = 0 \/ fetches[v] = 0)
    /\ (pc = "done" /\ ts_url_list = <<AX, BX>> /\ ext_x_key = <<>>) =>
          out_file = << files["x.ts"] \o files["x.ts"] >>

\* C20: a call of download() ends: it returns after the merge or raises,
\* for every playlist; on an empty playlist (with a decoder that can be
\* built) it returns with an empty output file.
C20_DownloadTerminates ==
    /\ (pc = "submit") ~>
          (pc \in {"done", "raised", "config_error", "merge_failed"})
    /\ (pc = "submit" /\ ts_url_list = <<>> /\ get_decoder.kind # "error") ~>
          (pc = "done" /\ out_file = << <<>> >>)

C20_Witness ==
    /\ pc = "done"
    /\ ts_url_list = <<>>
    /\ out_file = << <<>> >>
    /\ bar = 0

====
